---- MODULE Spec2Model ----
(***************************************************************************)
(* Remote job execution lifecycle of pygeoapi's                            *)
(* BaseRemoteExecutionProcessor (process/base_remote_execution.py) and     *)
(* the job-kind adapters built on it (conduit.py, solwcad.py,              *)
(* solwcad_new.py).                                                        *)
(*                                                                         *)
(* One processor object (self.job_id, self.remote_execute_synch, the       *)
(* adapter class), the filesystem below private_processor_dir, and the     *)
(* execute() calls made on the object.  Every call keeps its Python        *)
(* locals (working_dir, code_input_params, response, info) in call[c].     *)
(* Strings built by f-strings are sequences of their pieces, so that       *)
(* "the message contains X" is a statement about the pieces.               *)
(***************************************************************************)
EXTENDS Integers, Sequences, FiniteSets, TLC

(***************************************************************************)
(* Bounds of the model.                                                    *)
(***************************************************************************)
\* polls one execute() performs before the model stops following the loop
MaxPolls == 2

(***************************************************************************)
(* Values.                                                                 *)
(***************************************************************************)
\* Python's None, as the value of self.job_id
NoneVal == "<None>"
\* job ids a caller binds
JobIds == {"abc123", "job2"}
\* arguments of set_job_id: a job id, None, or the empty string
JobIdArgs == JobIds \cup {NoneVal, ""}
\* the execute() calls in the model
Calls == {1, 2}
\* request payloads, by what the adapter's validation makes of them
DataKinds == {"valid", "invalid", "crash",
              "no_components", "only_c", "extra_key", "int_value"}
\* output selections: none given, a declared output, an undeclared one
OutputSels == {"all", "grafico_1", "bogus"}
\* adapter classes
Adapters == {"ConduitProcessor", "SolwcadProcessor", "SolwcadProcessor_New",
             "StagingProcessor"}
\* HTTP status codes the remote executor answers with
Statuses == {200, 400}
\* exit codes and error-stream texts of a remote job
ExitCodes == {0, 1}
StdErrs == {"boom", "oops"}
\* the file the remote code leaves in the working directory
OutFile == "duct.out"
\* the file a staging adapter writes in prepare_input
InFile == "input.dat"
Files == {InFile, OutFile}

\* str() of the integers the program formats
ToStr(n) ==
    CASE n = 0 -> "0"
      [] n = 1 -> "1"
      [] n = 200 -> "200"
      [] n = 400 -> "400"
      [] OTHER -> "?"

Contains(seq, x) == \E i \in 1..Len(seq) : seq[i] = x

(***************************************************************************)
(* Exceptions: the class and the message.                                  *)
(***************************************************************************)
Error(t, m) == [type |-> t, msg |-> m]
NoError == Error("none", <<>>)

(***************************************************************************)
(* HTTP responses of the remote executor.                                  *)
(***************************************************************************)
NoBody == [kind |-> "none"]
\* a body that is not JSON: response.json() raises
TextBody == [kind |-> "text"]
\* {"Message": m}
MessageBody(m) == [kind |-> "message", Message |-> m]
\* {"job_id": j, "job_info": {"end_processing": e, "exit_code": x, "std_err": s}}
JobBody(j, e, x, s) ==
    [kind |-> "job", job_id |-> j, end_processing |-> e, exit_code |-> x,
     std_err |-> s]

Bodies(j) ==
    {TextBody, MessageBody("bad params")}
        \cup {JobBody(j, e, x, s) : e \in BOOLEAN, x \in ExitCodes, s \in StdErrs}

NoResponse == [status |-> 0, body |-> NoBody]
\* what the executor can answer to a request about job j
Responses(j) == [status : Statuses, body : Bodies(j)]

\* requests.Response.ok
Ok(r) == r.status < 400
\* str(response), the argument of ProcessorExecuteError(response)
ResponseText(r) == <<"<Response [", ToStr(r.status), "]>">>

\* response.json() raises on a body that is not JSON
JsonRaises(r) == r.body.kind = "text"
\* response.json()['Message'] can be evaluated
HasMessage(r) == r.body.kind = "message"
\* info['job_info'][...] can be evaluated
HasJobInfo(b) == b.kind = "job"


(***************************************************************************)
(* The adapters: prepare_input and prepare_output of each subclass.        *)
(***************************************************************************)
\* outcome of a prepare_input call: it raised (err) or returned (params);
\* staged are the files it wrote in the working directory before that
Raised(e, staged) == [raises |-> TRUE, err |-> e, params |-> "", staged |-> staged]
Returned(p, staged) == [raises |-> FALSE, err |-> NoError, params |-> p, staged |-> staged]

(***************************************************************************)
(* ConduitProcessor.prepare_input on the payload itself.  A number is kept *)
(* in tenths (x = 7 is 0.7) with its Python type; the components are the   *)
(* items of the JSON object, in their order.                               *)
(***************************************************************************)
Tenths(whole, tenth) == 10 * whole + tenth
Float(x) == [float |-> TRUE, x |-> x]
IntValue(x) == [float |-> FALSE, x |-> x]
Item(n, v) == [name |-> n, value |-> v]

required_key_set == {"p", "t", "d", "l", "sio2", "tio2", "al2o3", "fe2o3", "feo",
                     "mno", "mgo", "cao", "na2o", "k2o", "h2o", "co2", "b"}
optional_key_set == {"c", "den"}
default_key_set == {"f"}
\* the names of the two range checks, as the code spells them
positive_names == {"f", "p", "t", "d", "l", "b", "den"}
fraction_names == {"sio2", "tio2", "al2o3", "fe2o3", "feo", "mno", "mgo", "cao",
                   "nao2", "k2o", "h20", "co2"}

\* data['components']['value']: an object, absent, or not an object
DictPayload(items) == [shape |-> "dict", components |-> items]
MissingPayload == [shape |-> "missing", components |-> <<>>]
ScalarPayload == [shape |-> "scalar", components |-> <<>>]

\* set(components)
keys_present(items) == {items[i].name : i \in 1..Len(items)}

\* required_key_set.issubset(keys_present)
required_present(keys) == required_key_set \subseteq keys

\* at least one optional key is present but not all of them
optional_incomplete(keys) ==
    /\ optional_key_set \cap keys # {}
    /\ ~(optional_key_set \subseteq keys)

\* keys_present - required_key_set - optional_key_set - default_key_set
extra_keys_none(keys) == {}
extra_keys(keys) == ((keys \ required_key_set) \ optional_key_set) \ default_key_set

\* isinstance(param_value, float)
is_float(v) == v.float

\* the checks of one item in the loop: the message raised, "" when none
value_error(item) ==
    LET x == item.value.x
    IN  IF ~is_float(item.value)
        THEN "must be in decimal or scientific notation."
        ELSE IF item.name \in positive_names
        THEN IF x <= 0 THEN "must be > 0.0." ELSE ""
        ELSE IF item.name \in fraction_names
        THEN IF ~(0 < x /\ x < Tenths(1, 0)) THEN "must be >0.0 and <1.0." ELSE ""
        ELSE IF item.name = "c"
        THEN IF ~(0 < x /\ x < Tenths(0, 7)) THEN "must be >0.0 and <0.7." ELSE ""
        ELSE ""

\* input_flag = '-' + name
input_flag(name) == <<"-", name>>

\* 1.0e8, the default of -f
DefaultF == Float(Tenths(100000000, 0))

\* code_input_param after the loop and the default of -f
code_input_param(items) ==
    LET given == [fl \in {input_flag(n) : n \in keys_present(items)} |->
                     (CHOOSE it \in {items[i] : i \in 1..Len(items)} :
                          input_flag(it.name) = fl).value]
    IN  IF input_flag("f") \in DOMAIN given
        THEN given
        ELSE [fl \in DOMAIN given \cup {input_flag("f")} |->
                 IF fl \in DOMAIN given THEN given[fl] ELSE DefaultF]

ConduitProcessor_prepare_input(payload, outputs) ==
    LET items == payload.components
        keys == keys_present(items)
        bad == {i \in 1..Len(items) : value_error(items[i]) # ""}
        first == CHOOSE i \in bad : \A j \in bad : i <= j
    IN  IF outputs = "bogus"
        THEN Raised(Error("ProcessorExecuteError",
                          <<"Outputs contains unexpected parameters.">>), {})
        ELSE IF payload.shape = "missing"
        THEN Raised(Error("ProcessorExecuteError",
                          <<"Input not correctly formatted: ">>), {})
        ELSE IF payload.shape = "scalar"
        THEN Raised(Error("TypeError", <<"object is not iterable">>), {})
        ELSE IF ~required_present(keys)
        THEN Raised(Error("ProcessorExecuteError",
                          <<"Input does not contains all required parameters.">>), {})
        ELSE IF optional_incomplete(keys)
        THEN Raised(Error("ProcessorExecuteError",
                          <<"Input does not contains all required parameters.">>), {})
        ELSE IF extra_keys(keys) # {}
        THEN Raised(Error("ProcessorExecuteError",
                          <<"Input contains unexpected parameters: ">>), {})
        ELSE IF bad # {}
        THEN Raised(Error("ProcessorExecuteError",
                          <<"Value 'components[", items[first].name, "]' ",
                            value_error(items[first])>>), {})
        ELSE Returned(code_input_param(items), {})

\* the items of the example request, without the optional pair, each 0.5
ExampleOrder == <<"f", "p", "t", "d", "l", "sio2", "tio2", "al2o3", "fe2o3", "feo",
                  "mno", "mgo", "cao", "na2o", "k2o", "h2o", "co2", "b">>
ExampleItems == [i \in 1..Len(ExampleOrder) |-> Item(ExampleOrder[i], Float(Tenths(0, 5)))]

\* the items without name n, and with name n given value v
Without(items, n) == SelectSeq(items, LAMBDA it : it.name # n)
WithValue(items, n, v) ==
    IF n \in keys_present(items)
    THEN [i \in 1..Len(items) |-> IF items[i].name = n THEN Item(n, v) ELSE items[i]]
    ELSE Append(items, Item(n, v))

\* the payload of each kind of request
Payload(data) ==
    CASE data = "valid" -> DictPayload(ExampleItems)
      [] data = "invalid" -> DictPayload(Without(ExampleItems, "p"))
      [] data = "crash" -> ScalarPayload
      [] data = "no_components" -> MissingPayload
      [] data = "only_c" -> DictPayload(WithValue(ExampleItems, "c", Float(Tenths(0, 5))))
      [] data = "extra_key" -> DictPayload(WithValue(ExampleItems, "zzz", Float(Tenths(0, 5))))
      [] data = "int_value" -> DictPayload(WithValue(ExampleItems, "p", IntValue(1)))

\* ConduitProcessor.prepare_input: validates, writes no file; execute
\* passes what it returns on unchanged
conduit_prepare_input(data, outputs) ==
    LET r == ConduitProcessor_prepare_input(Payload(data), outputs)
    IN  IF r.raises THEN r ELSE Returned("conduit_params", {})

\* SolwcadProcessor.prepare_input(self, data, working_dir): execute() calls
\* it with three arguments
solwcad_prepare_input(data, outputs) ==
    Raised(Error("TypeError",
                 <<"prepare_input() takes 3 positional arguments but 4 were given">>), {})

\* SolwcadProcessor_New.prepare_input: a payload without the expected keys
\* is rejected; otherwise line 574 reads the undefined name swinput
solwcad_new_prepare_input(data, outputs) ==
    IF data # "valid"
    THEN Raised(Error("ProcessorExecuteError",
                      <<"Input not correctly formatted: ">>), {})
    ELSE Raised(Error("NameError", <<"name 'swinput' is not defined">>), {})

\* an adapter that follows the base class's contract and stages the
\* received file(s) in the working directory
staging_prepare_input(data, outputs) ==
    IF data = "valid"
    THEN Returned("staged_params", {InFile})
    ELSE IF data = "crash"
    THEN Raised(Error("OSError", <<"write failed">>), {InFile})
    ELSE Raised(Error("ProcessorExecuteError", <<"Input not correctly formatted: ">>), {})

prepare_input(kind, data, outputs) ==
    CASE kind = "ConduitProcessor" -> conduit_prepare_input(data, outputs)
      [] kind = "SolwcadProcessor" -> solwcad_prepare_input(data, outputs)
      [] kind = "SolwcadProcessor_New" -> solwcad_new_prepare_input(data, outputs)
      [] OTHER -> staging_prepare_input(data, outputs)

\* outcome of a prepare_output call: it raised (err) or returned (value)
NoValue == [mimetype |-> "", outputs |-> <<>>]
OutRaised(e) == [raises |-> TRUE, err |-> e, value |-> NoValue]
OutReturned(v) == [raises |-> FALSE, err |-> NoError, value |-> v]

\* prepare_output of the adapters that take (info, working_dir, outputs):
\* opens the output file of the remote code in the working directory and
\* builds the outputs from it, the job info and the output selection
read_output(kind, info, dirfiles, outputs) ==
    IF OutFile \notin dirfiles
    THEN OutRaised(Error("FileNotFoundError", <<OutFile>>))
    ELSE OutReturned([mimetype |-> "application/json",
                      outputs |-> <<kind, info.job_id, outputs>>])

prepare_output(kind, info, dirfiles, outputs) ==
    IF kind = "SolwcadProcessor"
    THEN OutRaised(Error("TypeError",
             <<"prepare_output() takes 3 positional arguments but 4 were given">>))
    ELSE read_output(kind, info, dirfiles, outputs)

(***************************************************************************)
(* Error interpretation of a non-success response.                         *)
(***************************************************************************)
\* the classes "except Exception" catches: every exception raised in the
\* two try blocks is one
IsException(e) == e.type # "none"

\* what the body of the try block raises: rmtree's error if the removal
\* failed, else the error of response.json()['Message'], else
\* ProcessorExecuteError(message)
try_message(r, removal_failed) ==
    IF removal_failed THEN Error("FileNotFoundError", <<"working_dir">>)
    ELSE IF JsonRaises(r) THEN Error("JSONDecodeError", <<>>)
    ELSE IF ~HasMessage(r) THEN Error("KeyError", <<"Message">>)
    ELSE Error("ProcessorExecuteError", <<r.body.Message>>)

\* try: ... raise ProcessorExecuteError(message)
\* except Exception: raise ProcessorExecuteError(response)
error_from_response(r, removal_failed) ==
    LET inner == try_message(r, removal_failed)
    IN  IF IsException(inner)
        THEN Error("ProcessorExecuteError", ResponseText(r))
        ELSE inner

\* the message logged when the job exited with a non-zero code
failure_log(info) ==
    <<"The job '", info.job_id, "' exited with code: ", ToStr(info.exit_code),
      "\nError message:\n", info.std_err>>
\* the message returned to the caller
failure_message_full(info) == failure_log(info)
failure_message(info) ==
    <<"The job '", info.job_id, "' exited with code ", ToStr(info.exit_code)>>

(***************************************************************************)
(* Decisions of execute().                                                 *)
(***************************************************************************)
\* not self.job_id
job_id_is_none(j) == j = NoneVal
job_id_missing(j) == j \in {NoneVal, ""}

\* except BaseException as ex: ...; raise ex
reraise_wrapped(ex) == Error("ProcessorExecuteError", ex.msg)
reraise(ex) == ex

\* the directories left by the handling of a non-success poll response:
\* this branch removes nothing
poll_error_cleanup(ds, wd) == ds \ {wd}
poll_error_dirs(ds, wd) == ds

\* if info['job_info']['end_processing']: break
poll_done_on_exit_code(info) == info.exit_code = 0
poll_done(info) == info.end_processing

\* return mimetype, process_outputs
execute_return_none(value) == NoValue
execute_return(value) == value

\* json={'application_params': {'job_id': ..., 'synch_execution': ...},
\*       'code_input_params': code_input_params}, headers=headers
submission_body_always_synch(jid, synch, params) ==
    [application_params |-> [job_id |-> jid, synch_execution |-> TRUE],
     code_input_params |-> params,
     content_type |-> "application/json"]
submission_body(jid, synch, params) ==
    [application_params |-> [job_id |-> jid, synch_execution |-> synch],
     code_input_params |-> params,
     content_type |-> "application/json"]

\* if self.remote_execute_synch: info = response.json()  else: while True
\* self.job_id once execute is over: execute holds no assignment to it
job_id_cleared(jid) == NoneVal
job_id_after_execute(jid) == jid

\* while True:  (the count of waiting loops is commented out)
loop_while_waiting_loops(polls) == polls < MaxPolls
loop_continues(polls) == TRUE

\* if not response.ok (after the POST)
submission_rejected_never(r) == FALSE
submission_rejected(r) == ~Ok(r)

waits_by_polling_always(synch) == TRUE
waits_by_polling_never(synch) == FALSE
waits_by_polling(synch) == ~synch

\* if info['job_info']['exit_code'] != 0
job_failed_when_ended(info) == info.end_processing /\ info.exit_code # 0
job_failed(info) == info.exit_code # 0

\* the directories left when the job failed: this branch removes nothing
job_failure_cleanup(ds, wd) == ds \ {wd}
job_failure_dirs(ds, wd) == ds

\* the directories left when prepare_output raised: the call is in no try
\* block and nothing is removed
output_error_cleanup(ds, wd) == ds \ {wd}
output_error_dirs(ds, wd) == ds

(***************************************************************************)
(* The filesystem: os.mkdir and shutil.rmtree.                             *)
(***************************************************************************)
\* os.mkdir(d) raises FileExistsError: the directory exists already (the
\* empty job id names private_processor_dir itself)
mkdir_exist_ok(ds, d) == d = ""
mkdir_fails(ds, d) == d = "" \/ d \in ds

\* the directories left after rmtree(d)
rmtree_noop(ds, d) == ds
rmtree_parent(ds, d) == {}
rmtree_dirs(ds, d) == ds \ {d}
\* the files left after rmtree(d)
rmtree_files(fl, d) == [fl EXCEPT ![d] = {}]

(***************************************************************************)
(* State.                                                                  *)
(***************************************************************************)
VARIABLES
    job_id,                 \* self.job_id
    remote_execute_synch,   \* self.remote_execute_synch
    adapter,                \* the class of the processor object
    dirs,                   \* job directories that exist under private_processor_dir
    files,                  \* files[d]: the files in directory d
    call                    \* call[c]: position and locals of execute() call c

vars == <<job_id, remote_execute_synch, adapter, dirs, files, call>>

\* an execute() call that has not started
IdleCall ==
    [pc |-> "idle",
     data |-> "valid",
     outputs |-> "all",
     working_dir |-> NoneVal,
     code_input_params |-> "",
     response |-> NoResponse,
     info |-> NoBody,
     submission |-> NoBody,
     submit_response |-> NoResponse,
     poll_url |-> NoneVal,
     poll_response |-> NoResponse,
     polls |-> 0,
     trace |-> <<>>,
     logged |-> <<>>,
     prep_err |-> NoError,
     out |-> OutReturned(NoValue),
     stage |-> "",
     dirs_before |-> {},
     files_before |-> [d \in JobIds |-> {}],
     ret |-> NoValue,
     err |-> NoError]

Init ==
    /\ job_id = NoneVal
    /\ remote_execute_synch \in BOOLEAN
    /\ adapter \in Adapters
    /\ dirs = {}
    /\ files = [d \in JobIds |-> {}]
    /\ call = [c \in Calls |-> IdleCall]

\* the call raises e while in stage st
Raise(r, st, e) == [r EXCEPT !.pc = "raised", !.stage = st, !.err = e]
Log(r, ev) == [r EXCEPT !.trace = Append(@, ev)]


Set(c, r) == call' = [call EXCEPT ![c] = r]

(***************************************************************************)
(* set_job_id(job_id)                                                      *)
(***************************************************************************)
set_job_id(j) ==
    /\ job_id' = j
    /\ UNCHANGED <<remote_execute_synch, adapter, dirs, files, call>>

(***************************************************************************)
(* execute(data, outputs), step by step.                                   *)
(***************************************************************************)
\* the caller enters execute(data, outputs)
execute(c, d, o) ==
    /\ call[c].pc = "idle"
    /\ Set(c, [IdleCall EXCEPT !.pc = "check_job_id", !.data = d, !.outputs = o,
                               !.dirs_before = dirs, !.files_before = files])
    /\ UNCHANGED <<job_id, remote_execute_synch, adapter, dirs, files>>

\* if not self.job_id: raise ProcessorGenericError
CheckJobId(c) ==
    /\ call[c].pc = "check_job_id"
    /\ IF job_id_missing(job_id)
       THEN Set(c, Raise(call[c], "job_id", Error("ProcessorGenericError",
                <<"Missing call to 'set_job_id()' before 'execute()'.">>)))
       ELSE Set(c, [call[c] EXCEPT !.pc = "mkdir"])
    /\ UNCHANGED <<job_id, remote_execute_synch, adapter, dirs, files>>

\* working_dir = str(self.private_processor_dir / self.job_id)
\* os.mkdir(working_dir, mode=0o755)
MakeWorkingDir(c) ==
    /\ call[c].pc = "mkdir"
    /\ IF job_id = NoneVal
       THEN /\ Set(c, Raise(call[c], "mkdir", Error("TypeError", <<"unsupported operand">>)))
            /\ UNCHANGED <<dirs, files>>
       ELSE IF mkdir_fails(dirs, job_id)
       THEN /\ Set(c, Raise([call[c] EXCEPT !.working_dir = job_id], "mkdir",
                            Error("FileExistsError", <<job_id>>)))
            /\ UNCHANGED <<dirs, files>>
       ELSE /\ dirs' = dirs \cup {job_id}
            /\ UNCHANGED files
            /\ Set(c, Log([call[c] EXCEPT !.pc = "prepare_input",
                                          !.working_dir = job_id], "mkdir"))
    /\ UNCHANGED <<job_id, remote_execute_synch, adapter>>

\* try: code_input_params = self.prepare_input(data, working_dir, outputs)
\* except BaseException as ex: shutil.rmtree(working_dir); raise ex
PrepareInput(c) ==
    /\ call[c].pc = "prepare_input"
    /\ LET wd == call[c].working_dir
           o == prepare_input(adapter, call[c].data, call[c].outputs)
           staged == IF wd \in dirs
                     THEN [files EXCEPT ![wd] = @ \cup o.staged] ELSE files
           r1 == Log([call[c] EXCEPT !.prep_err = o.err], "prepare_input")
       IN  IF o.raises
           THEN IF wd \in dirs
                THEN /\ dirs' = rmtree_dirs(dirs, wd)
                     /\ files' = rmtree_files(staged, wd)
                     /\ Set(c, Raise(Log(r1, "rmtree"), "prepare_input", reraise(o.err)))
                ELSE /\ UNCHANGED <<dirs, files>>
                     /\ Set(c, Raise(r1, "prepare_input",
                                     Error("FileNotFoundError", <<wd>>)))
           ELSE /\ files' = staged
                /\ UNCHANGED dirs
                /\ Set(c, [r1 EXCEPT !.pc = "post", !.code_input_params = o.params])
    /\ UNCHANGED <<job_id, remote_execute_synch, adapter>>

\* the remote code may leave its output file in the job's directory
RemoteWrites(j, w) ==
    files' = IF w /\ j \in dirs THEN [files EXCEPT ![j] = @ \cup {OutFile}] ELSE files

\* response = requests.post(execute_url, json={...}, headers=headers)
PostExecute(c) ==
    /\ call[c].pc = "post"
    /\ LET body == submission_body(job_id, remote_execute_synch,
                                   call[c].code_input_params)
           r1 == Log([call[c] EXCEPT !.submission = body], "POST")
       IN  \/ /\ Set(c, Raise(r1, "post", Error("ConnectionError", <<>>)))
              /\ UNCHANGED files
           \/ \E r \in Responses(job_id), w \in BOOLEAN :
                 /\ w => (Ok(r) /\ HasJobInfo(r.body) /\ remote_execute_synch)
                 /\ RemoteWrites(job_id, w)
                 /\ Set(c, [r1 EXCEPT !.pc = "submitted", !.response = r,
                                      !.submit_response = r])
    /\ UNCHANGED <<job_id, remote_execute_synch, adapter, dirs>>

\* if not response.ok: try: shutil.rmtree(working_dir) ... raise
\* if self.remote_execute_synch: info = response.json()
CheckSubmission(c) ==
    /\ call[c].pc = "submitted"
    /\ LET wd == call[c].working_dir
           r == call[c].response
       IN  IF submission_rejected(r)
           THEN /\ dirs' = rmtree_dirs(dirs, wd)
                /\ files' = IF wd \in dirs THEN rmtree_files(files, wd) ELSE files
                /\ Set(c, Raise(Log(call[c], "rmtree"), "submission",
                                error_from_response(r, wd \notin dirs)))
           ELSE /\ UNCHANGED <<dirs, files>>
                /\ IF waits_by_polling(remote_execute_synch)
                   THEN Set(c, [call[c] EXCEPT !.pc = "sleep"])
                   ELSE IF JsonRaises(r)
                   THEN Set(c, Raise(call[c], "info", Error("JSONDecodeError", <<>>)))
                   ELSE Set(c, [call[c] EXCEPT !.pc = "exit_check", !.info = r.body])
    /\ UNCHANGED <<job_id, remote_execute_synch, adapter>>

\* time.sleep(self.polling_time)
Sleep_no_wait(c) ==
    /\ call[c].pc = "sleep"
    /\ call[c].polls < MaxPolls
    /\ Set(c, [call[c] EXCEPT !.pc = "poll"])
    /\ UNCHANGED <<job_id, remote_execute_synch, adapter, dirs, files>>

Sleep(c) ==
    /\ call[c].pc = "sleep"
    /\ call[c].polls < MaxPolls
    /\ Set(c, Log([call[c] EXCEPT !.pc = "poll"], "sleep"))
    /\ UNCHANGED <<job_id, remote_execute_synch, adapter, dirs, files>>

\* response = requests.get(urljoin(self.url_executor, "job_info/" + self.job_id))
PollJobInfo(c) ==
    /\ call[c].pc = "poll"
    /\ IF job_id = NoneVal
       THEN /\ Set(c, Raise(call[c], "poll", Error("TypeError", <<"can only concatenate str">>)))
            /\ UNCHANGED files
       ELSE LET r1 == Log([call[c] EXCEPT !.poll_url = job_id, !.polls = @ + 1], "GET")
            IN  \/ /\ Set(c, Raise(r1, "poll", Error("ConnectionError", <<>>)))
                   /\ UNCHANGED files
                \/ \E r \in Responses(job_id), w \in BOOLEAN :
                      /\ w => (Ok(r) /\ HasJobInfo(r.body) /\ r.body.end_processing)
                      /\ RemoteWrites(job_id, w)
                      /\ Set(c, [r1 EXCEPT !.pc = "polled", !.response = r,
                                           !.poll_response = r])
    /\ UNCHANGED <<job_id, remote_execute_synch, adapter, dirs>>

\* if not response.ok: ... raise
\* info = response.json(); if info['job_info']['end_processing']: break
CheckPoll(c) ==
    /\ call[c].pc = "polled"
    /\ LET r == call[c].response
       IN  IF ~Ok(r)
           THEN /\ Set(c, Raise(call[c], "poll", error_from_response(r, FALSE)))
                /\ dirs' = poll_error_dirs(dirs, call[c].working_dir)
           ELSE /\ UNCHANGED dirs
                /\ IF JsonRaises(r)
                   THEN Set(c, Raise(call[c], "poll", Error("JSONDecodeError", <<>>)))
                   ELSE IF ~HasJobInfo(r.body)
                   THEN Set(c, Raise([call[c] EXCEPT !.info = r.body], "info",
                                     Error("KeyError", <<"job_info">>)))
                   ELSE IF poll_done(r.body)
                   THEN Set(c, [call[c] EXCEPT !.pc = "exit_check", !.info = r.body])
                   ELSE IF loop_continues(call[c].polls)
                   THEN Set(c, [call[c] EXCEPT !.pc = "sleep", !.info = r.body])
                   ELSE Set(c, [call[c] EXCEPT !.pc = "exit_check", !.info = r.body])
    /\ UNCHANGED <<job_id, remote_execute_synch, adapter, files>>

\* if info['job_info']['exit_code'] != 0: logging.error(error_msg);
\*     raise ProcessorExecuteError(message)
CheckExitCode(c) ==
    /\ call[c].pc = "exit_check"
    /\ LET info == call[c].info
       IN  IF ~HasJobInfo(info)
           THEN /\ Set(c, Raise(call[c], "info", Error("KeyError", <<"job_info">>)))
                /\ UNCHANGED dirs
           ELSE IF job_failed(info)
           THEN /\ Set(c, Raise([call[c] EXCEPT !.logged = failure_log(info)], "job",
                                Error("ProcessorExecuteError", failure_message(info))))
                /\ dirs' = job_failure_dirs(dirs, call[c].working_dir)
           ELSE /\ Set(c, [call[c] EXCEPT !.pc = "prepare_output"])
                /\ UNCHANGED dirs
    /\ UNCHANGED <<job_id, remote_execute_synch, adapter, files>>

\* mimetype, process_outputs = self.prepare_output(info, working_dir, outputs)
\* return mimetype, process_outputs
PrepareOutput(c) ==
    /\ call[c].pc = "prepare_output"
    /\ LET wd == call[c].working_dir
           o == prepare_output(adapter, call[c].info,
                               IF wd \in dirs THEN files[wd] ELSE {}, call[c].outputs)
           r1 == Log([call[c] EXCEPT !.out = o], "prepare_output")
       IN  IF o.raises
           THEN /\ Set(c, Raise(r1, "prepare_output", o.err))
                /\ dirs' = output_error_dirs(dirs, wd)
           ELSE /\ Set(c, [r1 EXCEPT !.pc = "returned", !.ret = execute_return(o.value)])
                /\ UNCHANGED dirs
    /\ UNCHANGED <<job_id, remote_execute_synch, adapter, files>>

\* the caller has received the result or the error of call c
Finish(c) ==
    /\ call[c].pc \in {"returned", "raised"}
    /\ Set(c, IdleCall)
    /\ job_id' = job_id_after_execute(job_id)
    /\ UNCHANGED <<remote_execute_synch, adapter, dirs, files>>

(***************************************************************************)
(* One request at a time: the calls on the processor do not overlap and    *)
(* the job id is bound between calls.                                      *)
(***************************************************************************)
Quiet == \A c \in Calls : call[c].pc = "idle"

SetJobIdBetweenCalls == \E j \in JobIdArgs : Quiet /\ set_job_id(j)
ExecuteAlone == \E c \in Calls, d \in DataKinds, o \in OutputSels : Quiet /\ execute(c, d, o)

\* one step of execute
Run(c) ==
    \/ CheckJobId(c)
    \/ MakeWorkingDir(c)
    \/ PrepareInput(c)
    \/ PostExecute(c)
    \/ CheckSubmission(c)
    \/ Sleep(c)
    \/ PollJobInfo(c)
    \/ CheckPoll(c)
    \/ CheckExitCode(c)
    \/ PrepareOutput(c)

Step(c) ==
    \/ Run(c)
    \/ Finish(c)

Next ==
    \/ SetJobIdBetweenCalls
    \/ ExecuteAlone
    \/ \E c \in Calls : Step(c)

Spec == Init /\ [][Next]_vars

(***************************************************************************)
(* The poll loop without end.  The program keeps no count of its polls:    *)
(* polls and trace are the model's record of the call.  Once the record    *)
(* holds MaxPolls polls it forgets the last one, and the loop goes on.     *)
(* execute is sequential code that keeps running, and requests.get         *)
(* answers or raises: each call's next step is eventually taken.           *)
(***************************************************************************)
PollLoopAgain(c) ==
    /\ call[c].pc = "sleep"
    /\ call[c].polls = MaxPolls
    /\ Set(c, [call[c] EXCEPT !.polls = @ - 1,
                              !.trace = SubSeq(@, 1, Len(@) - 2)])
    /\ UNCHANGED <<job_id, remote_execute_synch, adapter, dirs, files>>

\* a well-formed request that asks for every output
ExecuteValid == \E c \in Calls : Quiet /\ execute(c, "valid", "all")

NextLive ==
    \/ SetJobIdBetweenCalls
    \/ ExecuteValid
    \/ \E c \in Calls : Step(c)
    \/ \E c \in Calls : PollLoopAgain(c)

SpecLive ==
    /\ Init
    /\ [][NextLive]_vars
    /\ \A c \in Calls : WF_vars(Run(c) \/ PollLoopAgain(c))

(***************************************************************************)
(* The processor directory is shared with other parties: while a call is   *)
(* preparing its input, its working directory may be removed from outside  *)
(* (or by the preparer itself).                                            *)
(***************************************************************************)
OtherPartyRemoves(c) ==
    /\ call[c].pc = "prepare_input"
    /\ call[c].working_dir \in dirs
    /\ dirs' = dirs \ {call[c].working_dir}
    /\ files' = rmtree_files(files, call[c].working_dir)
    /\ UNCHANGED <<job_id, remote_execute_synch, adapter, call>>

NextShared ==
    \/ SetJobIdBetweenCalls
    \/ ExecuteAlone
    \/ \E c \in Calls : Step(c)
    \/ \E c \in Calls : OtherPartyRemoves(c)

SpecShared == Init /\ [][NextShared]_vars

(***************************************************************************)
(* ConduitProcessor.prepare_input alone, on the payloads themselves: the   *)
(* example request, without and with the optional pair, with one           *)
(* parameter given another value or left out.  data holds the payload and  *)
(* code_input_params what prepare_input returned.                          *)
(***************************************************************************)
ExampleWithCrystals ==
    WithValue(WithValue(ExampleItems, "c", Float(Tenths(0, 5))),
              "den", Float(Tenths(0, 5)))

ParameterNames == required_key_set \cup optional_key_set \cup default_key_set \cup {"zzz"}

\* -0.5, 0.0, 0.5, 0.7, 1.0, 1.5 and the integer 1
TestValues == {Float(x) : x \in {-5, 0, 5, 7, 10, 15}} \cup {IntValue(1)}

ConduitPayloads ==
    {MissingPayload, ScalarPayload}
        \cup {DictPayload(WithValue(base, n, v)) :
                  base \in {ExampleItems, ExampleWithCrystals},
                  n \in ParameterNames, v \in TestValues}
        \cup {DictPayload(Without(base, n)) :
                  base \in {ExampleItems, ExampleWithCrystals}, n \in ParameterNames}

ReceiveRequest(c, p, o) ==
    /\ call[c].pc = "idle"
    /\ Set(c, [IdleCall EXCEPT !.pc = "received", !.data = p, !.outputs = o])
    /\ UNCHANGED <<job_id, remote_execute_synch, adapter, dirs, files>>

ValidateRequest(c) ==
    /\ call[c].pc = "received"
    /\ LET r == ConduitProcessor_prepare_input(call[c].data, call[c].outputs)
       IN  IF r.raises
           THEN Set(c, [call[c] EXCEPT !.pc = "rejected", !.prep_err = r.err])
           ELSE Set(c, [call[c] EXCEPT !.pc = "validated", !.code_input_params = r.params])
    /\ UNCHANGED <<job_id, remote_execute_synch, adapter, dirs, files>>

NextConduit ==
    \/ \E p \in ConduitPayloads, o \in OutputSels : ReceiveRequest(1, p, o)
    \/ ValidateRequest(1)

SpecConduit == Init /\ [][NextConduit]_vars

(***************************************************************************)
(* Overlapping requests: two requests, each executed once, on the same     *)
(* processor object; execute may be entered, and the job id rebound, while *)
(* the other execute is still running.  The requests are well-formed and   *)
(* the executor answers with the job info of an ended job, so that a call  *)
(* polls once.                                                             *)
(***************************************************************************)
SetJobIdAnyTime == \E j \in JobIds : set_job_id(j)

\* call 1 is the request that enters first
ExecuteAnyTime ==
    \E c \in Calls : (c = 1 \/ call[1].pc # "idle") /\ execute(c, "valid", "all")

\* the answers the executor gives while requests overlap
ConcAnswer(r) ==
    \/ r = NoResponse
    \/ /\ r.body.kind = "job"
       /\ r.body.std_err = "boom"
       /\ r.body.end_processing
       /\ ~Ok(r) => r.body.exit_code = 0

ConcRun(c) ==
    /\ Run(c)
    /\ ConcAnswer(call'[c].response)

NextConc ==
    \/ SetJobIdAnyTime
    \/ ExecuteAnyTime
    \/ \E c \in Calls : ConcRun(c)

SpecConc == Init /\ [][NextConc]_vars

(***************************************************************************)
(* Properties.                                                             *)
(***************************************************************************)
Done(c) == call[c].pc \in {"returned", "raised"}
\* the submission was answered, with a success status
Submitted(c) == call[c].submit_response # NoResponse
Accepted(c) == Submitted(c) /\ Ok(call[c].submit_response)
\* the files in directory d, none when d does not exist
FilesIn(d) == IF d \in dirs THEN files[d] ELSE {}
\* the last event of the call
LastEvent(c) == IF call[c].trace = <<>> THEN "" ELSE call[c].trace[Len(call[c].trace)]
\* what the adapter makes of the call's request
PrepOutcome(c) == prepare_input(adapter, call[c].data, call[c].outputs)
\* how many times the call did ev
Count(c, ev) == Cardinality({i \in 1..Len(call[c].trace) : call[c].trace[i] = ev})

\* C1: in synchronous mode, when input preparation succeeded and the
\* submission was answered with success and exit_code 0, prepare_output
\* is applied to the body of the submission response; execute returns
\* exactly the pair it produced and the working directory still exists;
\* execute raises only the error prepare_output raised.
C1_SyncReturnsPreparedOutput ==
    \A c \in Calls :
        ( /\ remote_execute_synch
          /\ Done(c)
          /\ Accepted(c)
          /\ HasJobInfo(call[c].submit_response.body)
          /\ call[c].submit_response.body.exit_code = 0 )
        => LET produced == prepare_output(adapter, call[c].submit_response.body,
                                          FilesIn(call[c].working_dir), call[c].outputs)
           IN  /\ call[c].trace = <<"mkdir", "prepare_input", "POST", "prepare_output">>
               /\ call[c].pc = "returned"
                    => /\ ~produced.raises
                       /\ call[c].ret = produced.value
                       /\ call[c].working_dir \in dirs
               /\ call[c].pc = "raised"
                    => /\ produced.raises
                       /\ call[c].err = produced.err

C1_Witness ==
    \E c \in Calls :
        /\ remote_execute_synch
        /\ call[c].pc = "returned"
        /\ call[c].working_dir = "abc123"
        /\ call[c].submit_response.status = 200
        /\ call[c].ret.mimetype = "application/json"

\* C2: when the POST is answered with a non-success status, the working
\* directory this call created does not exist after execute has raised.
C2_RejectedSubmissionRemovesDir ==
    \A c \in Calls :
        (Done(c) /\ Submitted(c) /\ ~Ok(call[c].submit_response))
        => /\ call[c].pc = "raised"
           /\ Contains(call[c].trace, "mkdir")
           /\ call[c].working_dir \notin dirs

C2_Witness ==
    \E c \in Calls :
        /\ call[c].pc = "raised"
        /\ call[c].submit_response.status = 400
        /\ call[c].submit_response.body = MessageBody("bad params")
        /\ call[c].working_dir = "abc123"
        /\ adapter = "ConduitProcessor"

\* the call raised on a non-success response whose body carries a Message
RaisedOnMessage(c) ==
    /\ call[c].pc = "raised"
    /\ call[c].stage \in {"submission", "poll"}
    /\ ~Ok(call[c].response)
    /\ HasMessage(call[c].response)

\* C3: when the executor answers with a non-success status, at submission
\* or at a poll, the message of the error raised is the 'Message' field of
\* the body when it can be parsed, the response object only when it cannot.
C3_MessageFieldSurfaced ==
    \A c \in Calls :
        /\ RaisedOnMessage(c) => call[c].err.msg = <<call[c].response.body.Message>>
        /\ ( /\ call[c].pc = "raised"
             /\ call[c].stage \in {"submission", "poll"}
             /\ ~Ok(call[c].response)
             /\ call[c].err.msg = ResponseText(call[c].response) )
           => ~HasMessage(call[c].response)

\* the call raised because a poll failed
PollFailed(c) ==
    /\ call[c].pc = "raised"
    /\ LastEvent(c) = "GET"
    /\ \/ call[c].err.type = "ConnectionError"
       \/ call[c].poll_response # NoResponse /\ ~Ok(call[c].poll_response)

\* C4: in asynchronous mode, when a poll fails (non-success status or
\* transport error) execute raises, has removed nothing, and the working
\* directory with the files input preparation staged still exists.
C4_PollFailureKeepsDir ==
    \A c \in Calls :
        /\ ( /\ ~remote_execute_synch
             /\ Done(c)
             /\ call[c].polls > 0
             /\ \/ call[c].poll_response # NoResponse /\ ~Ok(call[c].poll_response)
                \/ call[c].err.type = "ConnectionError" )
           => PollFailed(c)
        /\ PollFailed(c)
           => /\ ~remote_execute_synch
              /\ call[c].working_dir \in dirs
              /\ PrepOutcome(c).staged \subseteq files[call[c].working_dir]
              /\ ~Contains(call[c].trace, "rmtree")

C4_Witness ==
    \E c \in Calls :
        /\ PollFailed(c)
        /\ call[c].polls = 2
        /\ call[c].poll_response.status = 400
        /\ InFile \in files[call[c].working_dir]

\* the call raised because the terminal job info has a non-zero exit code
JobFailed(c) ==
    /\ call[c].pc = "raised"
    /\ HasJobInfo(call[c].info)
    /\ call[c].info.exit_code # 0
    /\ call[c].stage = "job"

\* C5: when the terminal job info has exit_code # 0, the message raised
\* is made of the job id and the exit code alone and holds no std_err
\* text, which goes to the log; the same job info with any other std_err
\* text gives the identical message.
C5_FailureMessageHidesStdErr ==
    \A c \in Calls :
        ( /\ Done(c)
          /\ HasJobInfo(call[c].info)
          /\ call[c].info.exit_code # 0
          /\ remote_execute_synch \/ call[c].info.end_processing )
        =>   /\ JobFailed(c)
             /\ call[c].err.type = "ProcessorExecuteError"
             /\ Contains(call[c].err.msg, call[c].working_dir)
             /\ Contains(call[c].err.msg, ToStr(call[c].info.exit_code))
             /\ call[c].err.msg = <<"The job '", call[c].working_dir,
                                    "' exited with code ", ToStr(call[c].info.exit_code)>>
             /\ \A s \in StdErrs :
                   /\ ~Contains(call[c].err.msg, s)
                   /\ failure_message([call[c].info EXCEPT !.std_err = s]) = call[c].err.msg
             /\ Contains(call[c].logged, call[c].info.std_err)

C5_Witness ==
    \E c \in Calls :
        /\ JobFailed(c)
        /\ ~remote_execute_synch
        /\ call[c].polls = 2
        /\ call[c].info.exit_code = 1
        /\ call[c].info.std_err = "boom"

\* C6: execute called while no job id is bound (None or the empty string)
\* raises ProcessorGenericError; no directory is created or removed,
\* prepare_input is not invoked and no HTTP request is issued.
C6_UnboundJobIdFailsFirst ==
    \A c \in Calls :
        (call[c].pc # "idle" /\ job_id \in {NoneVal, ""})
        => /\ call[c].pc \in {"check_job_id", "raised"}
           /\ call[c].pc = "raised" => call[c].err.type = "ProcessorGenericError"
           /\ call[c].trace = <<>>
           /\ dirs = call[c].dirs_before
           /\ files = call[c].files_before

C6_Witness ==
    \E c \in Calls :
        /\ call[c].pc = "raised"
        /\ job_id = ""
        /\ call[c].err.type = "ProcessorGenericError"
        /\ dirs # {}

\* C7: when the directory of the bound job id exists as execute starts,
\* execute raises at directory creation; the directory and its contents
\* are as they were; nothing is removed, prepare_input is not called and
\* no HTTP request is issued.
C7_ExistingDirUntouched ==
    \A c \in Calls :
        (call[c].pc # "idle" /\ job_id \in call[c].dirs_before)
        => /\ call[c].pc \in {"check_job_id", "mkdir", "raised"}
           /\ call[c].pc = "raised" => call[c].err.type = "FileExistsError"
           /\ call[c].trace = <<>>
           /\ dirs = call[c].dirs_before
           /\ files = call[c].files_before

C7_Witness ==
    \E c \in Calls :
        /\ call[c].pc = "raised"
        /\ call[c].err.type = "FileExistsError"
        /\ adapter = "ConduitProcessor"
        /\ call[c].working_dir \in dirs
        /\ files[call[c].working_dir] = {OutFile}

\* C8: when prepare_input raises, whatever the error, execute removes the
\* working directory, issues no HTTP request and raises that same error.
C8_InputFailureCleansAndReraises ==
    \A c \in Calls :
        (Contains(call[c].trace, "prepare_input") /\ PrepOutcome(c).raises)
        => /\ call[c].pc = "raised"
           /\ call[c].err = PrepOutcome(c).err
           /\ call[c].trace = <<"mkdir", "prepare_input", "rmtree">>
           /\ call[c].working_dir \notin dirs
           /\ FilesIn(call[c].working_dir) = {}
           /\ ~Submitted(c)

C8_Witness ==
    \E c \in Calls :
        /\ call[c].pc = "raised"
        /\ adapter = "ConduitProcessor"
        /\ call[c].err.type = "TypeError"
        /\ Contains(call[c].trace, "rmtree")
        /\ call[c].working_dir = "abc123"
        /\ "abc123" \notin dirs

\* C9: whichever way execute fails after creating the directory and before
\* a success response to the POST (prepare_input raising, the POST raising
\* a transport error, a non-success response), the directory does not
\* exist after execute has raised.
C9_DirDestroyedBeforeAcceptance ==
    \A c \in Calls :
        (call[c].pc = "raised" /\ Contains(call[c].trace, "mkdir") /\ ~Accepted(c))
        => call[c].working_dir \notin dirs

\* the last poll response is a success that reports the end of processing
TerminalPoll(c) ==
    /\ call[c].poll_response # NoResponse
    /\ Ok(call[c].poll_response)
    /\ HasJobInfo(call[c].poll_response.body)
    /\ call[c].poll_response.body.end_processing

\* the last poll response is a success that reports processing not ended
PendingPoll(c) ==
    /\ call[c].poll_response # NoResponse
    /\ Ok(call[c].poll_response)
    /\ HasJobInfo(call[c].poll_response.body)
    /\ ~call[c].poll_response.body.end_processing

\* C10: in asynchronous mode execute does not reach the exit-code check,
\* prepare_output or its return before a poll response has end_processing
\* true; after a successful poll response with end_processing false it
\* sleeps and polls again.
C10_AsyncWaitsForEndProcessing ==
    \A c \in Calls :
        ~remote_execute_synch
        => /\ ( \/ call[c].pc \in {"exit_check", "prepare_output", "returned"}
                \/ Contains(call[c].trace, "prepare_output") )
              => /\ TerminalPoll(c)
                 /\ call[c].info = call[c].poll_response.body
           /\ PendingPoll(c)
              => \/ call[c].pc \in {"polled", "sleep"}
                 \/ /\ call[c].pc = "poll"
                    /\ Len(call[c].trace) >= 2
                    /\ call[c].trace[Len(call[c].trace) - 1] = "GET"
                    /\ LastEvent(c) = "sleep"
                 \/ /\ call[c].pc = "raised"
                    /\ call[c].err.type = "ConnectionError"
                    /\ LastEvent(c) = "GET"
                    /\ call[c].polls >= 2

C10_Witness ==
    \E c \in Calls :
        /\ ~remote_execute_synch
        /\ call[c].pc = "returned"
        /\ call[c].trace = <<"mkdir", "prepare_input", "POST", "sleep", "GET",
                             "sleep", "GET", "prepare_output">>

\* C11: when the remote job ends with a non-zero exit code, in either
\* mode, execute raises the job-failure error and removes nothing: the
\* working directory and its contents still exist.
C11_JobFailureKeepsDir ==
    \A c \in Calls :
        ( /\ Done(c)
          /\ HasJobInfo(call[c].info)
          /\ call[c].info.exit_code # 0
          /\ remote_execute_synch \/ call[c].info.end_processing )
        => /\ call[c].pc = "raised"
           /\ call[c].err = Error("ProcessorExecuteError",
                  <<"The job '", call[c].info.job_id, "' exited with code ",
                    ToStr(call[c].info.exit_code)>>)
           /\ ~Contains(call[c].trace, "rmtree")
           /\ call[c].working_dir \in dirs
           /\ PrepOutcome(c).staged \subseteq files[call[c].working_dir]
           /\ call[c].dirs_before \subseteq dirs

C11_Witness ==
    \E c \in Calls :
        /\ remote_execute_synch
        /\ JobFailed(c)
        /\ adapter = "StagingProcessor"
        /\ files[call[c].working_dir] = {InFile, OutFile}

\* C12: a terminal job info with exit_code # 0 is a job failure whatever
\* its other fields hold: prepare_output is not invoked and execute does
\* not return a result.
C12_NonZeroExitNeverPrepared ==
    \A c \in Calls :
        /\ ( /\ HasJobInfo(call[c].info)
             /\ call[c].info.exit_code # 0
             /\ remote_execute_synch \/ call[c].info.end_processing )
           => /\ call[c].pc \in {"exit_check", "raised"}
              /\ ~Contains(call[c].trace, "prepare_output")
              /\ call[c].ret = NoValue
        /\ ( \/ Contains(call[c].trace, "prepare_output")
             \/ call[c].pc \in {"prepare_output", "returned"} )
           => /\ HasJobInfo(call[c].info)
              /\ call[c].info.exit_code = 0

C12_Witness ==
    \E c \in Calls :
        /\ remote_execute_synch
        /\ call[c].pc = "raised"
        /\ call[c].stage = "job"
        /\ call[c].info.exit_code = 1
        /\ ~call[c].info.end_processing
        /\ OutFile \in files[call[c].working_dir]

\* C13: in synchronous mode execute issues one HTTP request, the POST,
\* never sleeps and never issues a GET; the body of the submission
\* response is the final job info.
C13_SyncSingleRequest ==
    \A c \in Calls :
        remote_execute_synch
        => /\ Count(c, "POST") <= 1
           /\ Count(c, "sleep") = 0
           /\ Count(c, "GET") = 0
           /\ call[c].polls = 0
           /\ call[c].poll_response = NoResponse
           /\ call[c].pc \notin {"sleep", "poll", "polled"}
           /\ call[c].pc \in {"exit_check", "prepare_output", "returned"}
              => /\ Count(c, "POST") = 1
                 /\ call[c].info = call[c].submit_response.body

C13_Witness ==
    \E c \in Calls :
        /\ remote_execute_synch
        /\ call[c].pc = "returned"
        /\ call[c].working_dir = "job2"
        /\ call[c].trace = <<"mkdir", "prepare_input", "POST", "prepare_output">>
        /\ ~call[c].info.end_processing

\* C14: when prepare_output raises, execute raises that same error and
\* removes nothing: the working directory still exists.
C14_OutputFailureKeepsDir ==
    \A c \in Calls :
        LET produced == prepare_output(adapter, call[c].info,
                                       FilesIn(call[c].working_dir), call[c].outputs)
        IN  /\ (Contains(call[c].trace, "prepare_output") /\ call[c].pc = "raised")
               => produced.raises
            /\ (Contains(call[c].trace, "prepare_output") /\ produced.raises)
               => /\ call[c].pc = "raised"
                  /\ call[c].err = produced.err
                  /\ ~Contains(call[c].trace, "rmtree")
                  /\ call[c].working_dir \in dirs
                  /\ PrepOutcome(c).staged \subseteq files[call[c].working_dir]

C14_Witness ==
    \E c \in Calls :
        /\ call[c].pc = "raised"
        /\ call[c].stage = "prepare_output"
        /\ call[c].err.type = "FileNotFoundError"
        /\ adapter = "ConduitProcessor"
        /\ call[c].working_dir \in dirs

\* prepare_input has returned and prepare_output has not been invoked
InputPrepared(c) ==
    /\ Contains(call[c].trace, "prepare_input")
    /\ ~PrepOutcome(c).raises
    /\ ~Contains(call[c].trace, "prepare_output")

\* execute has raised on a non-success response to the POST
Rejected(c) ==
    /\ call[c].pc = "raised"
    /\ Submitted(c)
    /\ ~Ok(call[c].submit_response)

\* C15 as stated: in every state after prepare_input has returned and
\* before prepare_output has returned or raised, the working directory
\* exists.
C15_DirExistsUntilOutput ==
    \A c \in Calls : InputPrepared(c) => call[c].working_dir \in dirs

\* C15 as amended: in every state after prepare_input has returned, the
\* working directory exists and execute has removed nothing, unless execute
\* has raised on a non-success response to the POST.
C15_DirExistsUnlessRejected ==
    \A c \in Calls :
        ( /\ Contains(call[c].trace, "prepare_input")
          /\ ~PrepOutcome(c).raises
          /\ ~Rejected(c) )
        => /\ call[c].working_dir \in dirs
           /\ ~Contains(call[c].trace, "rmtree")
           /\ PrepOutcome(c).staged \subseteq files[call[c].working_dir]

C15_Witness ==
    \E c \in Calls :
        /\ ~remote_execute_synch
        /\ call[c].pc = "prepare_output"
        /\ call[c].polls = 2
        /\ adapter = "StagingProcessor"
        /\ files[call[c].working_dir] = {InFile, OutFile}

\* C19: the body of the submission POST is {application_params: {job_id:
\* the bound job id, synch_execution: the configured flag},
\* code_input_params: what prepare_input returned}, sent as JSON with
\* Content-Type application/json, for every request that reaches the POST.
C19_SubmissionBody ==
    \A c \in Calls :
        /\ ~Contains(call[c].trace, "POST") => call[c].submission = NoBody
        /\ Contains(call[c].trace, "POST")
           => /\ ~PrepOutcome(c).raises
              /\ call[c].working_dir = job_id
              /\ call[c].submission =
                    [application_params |->
                         [job_id |-> call[c].working_dir,
                          synch_execution |-> remote_execute_synch],
                     code_input_params |-> PrepOutcome(c).params,
                     content_type |-> "application/json"]

C19_Witness ==
    \E c \in Calls :
        /\ ~remote_execute_synch
        /\ call[c].pc = "submitted"
        /\ call[c].submission.application_params.job_id = "abc123"
        /\ call[c].submission.code_input_params = "conduit_params"

\* the adapter classes defined in the repository
RepoAdapters == {"ConduitProcessor", "SolwcadProcessor", "SolwcadProcessor_New"}

\* C20: every adapter of the repository implements prepare_input(data,
\* working_dir, outputs) and prepare_output(info, working_dir, outputs):
\* for a well-formed request execute gets past input preparation (and on
\* to the submission POST) and prepare_output accepts the call.
C20_AdaptersReachSubmission ==
    \A c \in Calls :
        ( /\ adapter \in RepoAdapters
          /\ call[c].data = "valid"
          /\ call[c].outputs # "bogus"
          /\ Contains(call[c].trace, "prepare_input") )
        => /\ ~(call[c].pc = "raised" /\ call[c].stage = "prepare_input")
           /\ call[c].code_input_params # ""
           /\ call[c].pc # "post" => Contains(call[c].trace, "POST")
           /\ prepare_output(adapter, JobBody(call[c].working_dir, TRUE, 0, "boom"),
                             {OutFile}, call[c].outputs).err.type # "TypeError"

\* the failure class of the protocol the call ended in: a submission
\* failure (the POST failed or was rejected), a poll failure, a job failure
FailureClass(c) ==
    IF call[c].pc # "raised" THEN "none"
    ELSE IF call[c].stage \in {"post", "submission"} THEN "submission"
    ELSE IF PollFailed(c) THEN "poll"
    ELSE IF JobFailed(c) THEN "job"
    ELSE "other"

ProtocolFailures == {"submission", "poll", "job"}

\* C16: a submission failure, a poll failure and a job failure are raised
\* as distinct error kinds: two calls that ended in different failure
\* classes never hold errors of the same class.
C16_FailureClassesDistinct ==
    \A c, d \in Calls :
        ( /\ FailureClass(c) \in ProtocolFailures
          /\ FailureClass(d) \in ProtocolFailures
          /\ FailureClass(c) # FailureClass(d) )
        => call[c].err.type # call[d].err.type

\* the call created its working directory and has not removed it
Created(c) ==
    /\ Contains(call[c].trace, "mkdir")
    /\ ~Contains(call[c].trace, "rmtree")

\* the call raised at directory creation because the directory exists
Collided(c) ==
    /\ call[c].pc = "raised"
    /\ call[c].stage = "mkdir"
    /\ call[c].err.type = "FileExistsError"

C17_OneHolder ==
    /\ \A c, d \in Calls :
          (c # d /\ Created(c) /\ Created(d))
          => call[c].working_dir # call[d].working_dir
    /\ \A c \in Calls :
          Created(c) => call[c].working_dir \in dirs
    /\ \A d \in Calls :
          Collided(d) => /\ call[d].trace = <<>>
                         /\ call[d].submission = NoBody
                         /\ call[d].poll_url = NoneVal

C17_CollisionTouchesNothing ==
    \A d \in Calls :
        (call[d].pc = "mkdir" /\ job_id \in dirs /\ call'[d] # call[d])
        => /\ Collided(d)'
           /\ dirs' = dirs
           /\ files' = files

\* C17: two overlapping execute calls bound to the same job id never both
\* hold the working directory: while one has created it and it exists,
\* the other raises at directory creation, has issued no HTTP request, and
\* that step removes and writes nothing.
C17_SameJobIdExcluded == []C17_OneHolder /\ [][C17_CollisionTouchesNothing]_vars

C17_Witness ==
    \E c, d \in Calls :
        /\ c # d
        /\ Created(c)
        /\ call[c].pc = "submitted"
        /\ call[c].working_dir = "abc123"
        /\ Collided(d)
        /\ call[d].working_dir = "abc123"
        /\ adapter = "ConduitProcessor"

\* C18: with two jobs in flight on the same processor object, the job id
\* in each execution's submission body and in its poll URL is the job id
\* of the working directory that execution created.
C18_RequestsNameOwnJob ==
    \A c \in Calls :
        /\ Contains(call[c].trace, "POST")
           => call[c].submission.application_params.job_id = call[c].working_dir
        /\ Contains(call[c].trace, "GET")
           => call[c].poll_url = call[c].working_dir

\* the stage an event of execute belongs to
StageRank(ev) ==
    CASE ev = "mkdir" -> 1
      [] ev = "prepare_input" -> 2
      [] ev = "POST" -> 3
      [] ev \in {"sleep", "GET"} -> 4
      [] ev = "prepare_output" -> 5
      [] OTHER -> 0

\* the events of the call other than the removal of the directory
StageEvents(c) == SelectSeq(call[c].trace, LAMBDA ev : ev # "rmtree")

\* C21: within one execute call the stages occur in the order directory
\* creation, prepare_input, submission POST, polls (asynchronous mode
\* only), prepare_output, each once and each after the previous one
\* succeeded: prepare_input has returned before the POST, no poll comes
\* before a success response to the POST, prepare_output comes after the
\* job info of the mode was obtained from a success response.
C21_StagesInOrder ==
    \A c \in Calls :
        LET t == StageEvents(c)
        IN  /\ \A i, j \in 1..Len(t) : i < j => StageRank(t[i]) <= StageRank(t[j])
            /\ \A i \in 1..Len(t) : StageRank(t[i]) > 0
            /\ \A ev \in {"mkdir", "prepare_input", "POST", "prepare_output"} :
                  Count(c, ev) <= 1
            /\ t # <<>> => t[1] = "mkdir"
            /\ Contains(t, "POST")
               => Contains(t, "prepare_input") /\ ~PrepOutcome(c).raises
            /\ Contains(t, "sleep")
               => /\ ~remote_execute_synch
                  /\ Contains(t, "POST")
                  /\ Accepted(c)
            /\ Contains(t, "GET") => Contains(t, "sleep")
            /\ Contains(t, "prepare_output")
               => /\ Accepted(c)
                  /\ HasJobInfo(call[c].info)
                  /\ IF remote_execute_synch
                     THEN call[c].info = call[c].submit_response.body
                     ELSE /\ TerminalPoll(c)
                          /\ call[c].info = call[c].poll_response.body

C21_Witness ==
    \E c \in Calls :
        /\ ~remote_execute_synch
        /\ call[c].pc = "returned"
        /\ call[c].trace = <<"mkdir", "prepare_input", "POST", "sleep", "GET",
                             "sleep", "GET", "prepare_output">>


\* C22: in asynchronous mode every poll GET is immediately preceded by a
\* sleep: a sleep follows the submission POST or a GET, a GET follows a
\* sleep, so n polls come with n sleeps and no two GETs are adjacent.
C22_SleepBeforeEveryPoll ==
    \A c \in Calls :
        LET t == call[c].trace
        IN  /\ \A i \in 1..Len(t) :
                  /\ t[i] = "GET" => (i > 1 /\ t[i - 1] = "sleep")
                  /\ t[i] = "sleep" => (i > 1 /\ t[i - 1] \in {"POST", "GET"})
            /\ Count(c, "GET") = call[c].polls
            /\ Count(c, "GET") <= Count(c, "sleep")
            /\ Count(c, "sleep") <= Count(c, "GET") + 1
            /\ LastEvent(c) # "sleep" => Count(c, "sleep") = Count(c, "GET")

C22_Witness ==
    \E c \in Calls :
        /\ ~remote_execute_synch
        /\ call[c].polls = 2
        /\ call[c].pc = "polled"
        /\ call[c].trace = <<"mkdir", "prepare_input", "POST", "sleep", "GET",
                             "sleep", "GET">>


\* the call is in the poll loop and its last poll was answered with a
\* success that reports processing not ended
WaitsAfterPending(c) == call[c].pc = "polled" /\ PendingPoll(c)

\* C23: the asynchronous poll loop has no cap.  execute ends after a poll
\* only when that poll failed or reported end_processing true; after a
\* poll answered with success and end_processing false it always polls
\* again, however many polls came before; once a poll reports
\* end_processing true execute returns or raises.
C23_PollLoopUnbounded ==
    \A c \in Calls :
        /\ []((Done(c) /\ PendingPoll(c))
              => /\ call[c].pc = "raised"
                 /\ LastEvent(c) = "GET"
                 /\ call[c].err.type = "ConnectionError")
        /\ WaitsAfterPending(c) ~> (call[c].pc = "poll")
        /\ (call[c].pc = "polled" /\ TerminalPoll(c)) ~> Done(c)

C23_Witness ==
    \E c \in Calls :
        /\ ~remote_execute_synch
        /\ WaitsAfterPending(c)
        /\ call[c].polls = MaxPolls


\* C24: prepare_output is invoked only with a job info whose
\* end_processing is true, in synchronous mode as in asynchronous mode.
C24_OutputOnlyAfterEnd ==
    \A c \in Calls :
        Contains(call[c].trace, "prepare_output")
        => (HasJobInfo(call[c].info) /\ call[c].info.end_processing)


\* C25: when prepare_input fails and the working directory is already
\* gone at the moment of the cleanup, the cleanup raises nothing and
\* execute re-raises the error of prepare_input unchanged.
C25_CleanupOfMissingDirIsSafe ==
    \A c \in Calls :
        ( /\ call[c].pc = "raised"
          /\ call[c].stage = "prepare_input"
          /\ PrepOutcome(c).raises
          /\ ~Contains(call[c].trace, "rmtree") )
        => call[c].err = PrepOutcome(c).err


\* the conduit requests that fail input validation: an unknown output, no
\* 'components', a required parameter missing, one of c/den without the
\* other, an unexpected parameter, a value that is not a float
ConduitRejects(data, outputs) ==
    LET p == Payload(data)
        names == {p.components[i].name : i \in 1..Len(p.components)}
    IN  \/ outputs = "bogus"
        \/ p.shape = "missing"
        \/ /\ p.shape = "dict"
           /\ \/ \E n \in required_key_set : n \notin names
              \/ ("c" \in names) # ("den" \in names)
              \/ \E n \in names : n \notin required_key_set \cup {"c", "den", "f"}
              \/ \E i \in 1..Len(p.components) : ~p.components[i].value.float

\* C26: for the conduit job kind a request that fails input validation
\* makes execute raise ProcessorExecuteError, with no HTTP request issued
\* and the working directory removed.
C26_ConduitValidationFailure ==
    \A c \in Calls :
        ( /\ adapter = "ConduitProcessor"
          /\ Contains(call[c].trace, "prepare_input")
          /\ ConduitRejects(call[c].data, call[c].outputs) )
        => /\ call[c].pc = "raised"
           /\ call[c].err.type = "ProcessorExecuteError"
           /\ call[c].trace = <<"mkdir", "prepare_input", "rmtree">>
           /\ call[c].submission = NoBody
           /\ call[c].working_dir \notin dirs

C26_Witness ==
    \E c \in Calls :
        /\ adapter = "ConduitProcessor"
        /\ call[c].data = "extra_key"
        /\ call[c].outputs = "grafico_1"
        /\ call[c].pc = "raised"
        /\ call[c].working_dir = "abc123"
        /\ "abc123" \notin dirs

\* the call has removed a directory: its own, created by itself
RemovedOwn(c) ==
    \E i, j \in 1..Len(call[c].trace) :
        /\ i < j
        /\ call[c].trace[i] = "mkdir"
        /\ call[c].trace[j] = "rmtree"
        /\ call[c].working_dir \notin call[c].dirs_before

C27_RemovalsAreOwn ==
    \A c \in Calls : Contains(call[c].trace, "rmtree") => RemovedOwn(c)

C27_EveryRemovalLogged ==
    \A d \in dirs \ dirs' :
        \E c \in Calls :
            /\ call[c].working_dir = d
            /\ Contains(call[c].trace, "mkdir")
            /\ d \notin call[c].dirs_before
            /\ Count(c, "rmtree")' = Count(c, "rmtree") + 1
            /\ dirs' = dirs \ {d}

\* C27: execute only ever removes a directory that the same call created:
\* every removal is of the call's own <job_id> directory, after its own
\* mkdir succeeded; no directory that existed before the call and no
\* directory of another job id is removed.
C27_RemovesOnlyOwnDir == []C27_RemovalsAreOwn /\ [][C27_EveryRemovalLogged]_vars

C27_Witness ==
    \E c \in Calls :
        /\ call[c].pc = "raised"
        /\ call[c].stage = "submission"
        /\ call[c].working_dir = "abc123"
        /\ call[c].dirs_before = {"job2"}
        /\ dirs = {"job2"}
        /\ OutFile \in files["job2"]

\* the call is past the wait for the job's end
PastWait(c) ==
    \/ call[c].pc \in {"exit_check", "prepare_output", "returned"}
    \/ call[c].pc = "raised" /\ call[c].stage \in {"job", "prepare_output"}

\* C28: in asynchronous mode the job info that goes to the exit-code check
\* and to prepare_output is the body of the last poll, never the body of
\* the submission response: at least one sleep and one GET come first,
\* also when the submission response reports end_processing true.
C28_AsyncInfoFromPoll ==
    \A c \in Calls :
        (~remote_execute_synch /\ PastWait(c))
        => /\ Count(c, "sleep") >= 1
           /\ Count(c, "GET") >= 1
           /\ TerminalPoll(c)
           /\ call[c].info = call[c].poll_response.body
           /\ call[c].response = call[c].poll_response

C28_Witness ==
    \E c \in Calls :
        /\ ~remote_execute_synch
        /\ call[c].pc = "returned"
        /\ HasJobInfo(call[c].submit_response.body)
        /\ call[c].submit_response.body.end_processing
        /\ call[c].submit_response.body.exit_code = 1
        /\ call[c].info.exit_code = 0
        /\ Count(c, "GET") = 1


\* the run left its working directory in place / removed it
LeftDir(c) ==
    \/ call[c].pc = "returned"
    \/ PollFailed(c)
    \/ JobFailed(c)
    \/ call[c].pc = "raised" /\ call[c].stage = "prepare_output"

RemovedDir(c) == call[c].pc = "raised" /\ call[c].stage \in {"prepare_input", "submission"}

\* after the run the job id is the one the run used, and the directory is
\* there or not according to how the run ended
C29_AfterRun ==
    \A c \in Calls :
        /\ call[c].working_dir # NoneVal => job_id = call[c].working_dir
        /\ LeftDir(c) => call[c].working_dir \in dirs
        /\ RemovedDir(c) => call[c].working_dir \notin dirs

\* no step of a call changes the job id; with a job id bound the
\* precondition passes, and directory creation fails, with nothing done,
\* exactly when the directory is there
C29_NextRun ==
    \A c \in Calls :
        (call'[c] # call[c])
        => /\ job_id' = job_id
           /\ (call[c].pc = "check_job_id" /\ job_id \in JobIds)
              => call'[c].pc = "mkdir"
           /\ (call[c].pc = "mkdir" /\ job_id \in JobIds)
              => IF job_id \in dirs
                 THEN /\ call'[c].pc = "raised"
                      /\ call'[c].err.type = "FileExistsError"
                      /\ call'[c].trace = <<>>
                      /\ dirs' = dirs
                 ELSE /\ call'[c].pc = "prepare_input"
                      /\ dirs' = dirs \cup {job_id}

\* C29: execute never clears or changes the bound job id, so a second
\* execute without a new set_job_id passes the job-id precondition; it
\* fails at directory creation, with no HTTP request, after a run that
\* left the directory (success, poll failure, job failure, output
\* failure), and creates the directory again after a run that removed it
\* (input-preparation failure, non-success submission).
C29_JobIdStaysBound == []C29_AfterRun /\ [][C29_NextRun]_vars

C29_Witness ==
    \E c \in Calls :
        /\ call[c].pc = "raised"
        /\ call[c].stage = "mkdir"
        /\ call[c].err.type = "FileExistsError"
        /\ call[c].working_dir = "abc123"
        /\ job_id = "abc123"
        /\ files["abc123"] = {OutFile}
        /\ dirs = {"abc123"}


\* the range the process description declares for a parameter
InDeclaredRange(name, v) ==
    IF name \in {"f", "p", "t", "d", "l", "b", "den"}
    THEN v.x > 0
    ELSE IF name \in {"sio2", "tio2", "al2o3", "fe2o3", "feo", "mno", "mgo", "cao",
                      "na2o", "k2o", "h2o", "co2"}
    THEN 0 < v.x /\ v.x < Tenths(1, 0)
    ELSE IF name = "c"
    THEN 0 < v.x /\ v.x < Tenths(0, 7)
    ELSE TRUE

\* C30: ConduitProcessor.prepare_input enforces the declared range of
\* every parameter it forwards: every value of the code_input_params it
\* returns lies in the range declared for its parameter.
C30_ForwardedValuesInRange ==
    \A c \in Calls :
        call[c].pc = "validated"
        => \A fl \in DOMAIN call[c].code_input_params :
              InDeclaredRange(fl[2], call[c].code_input_params[fl])

====
